---- MODULE Spec2Model ----
(***************************************************************************)
(* Model of TriNetXRelativeRiskGraphs.py: the Streamlit script that turns  *)
(* the edited cohort table into bars, group markers and chart overlays.    *)
(*                                                                         *)
(* Strings are sequences of one-character strings, so that strip, split,   *)
(* startswith and replace are computed character by character.  An         *)
(* optional cell (None / NaN) is <<>> and a present cell v is <<v>>.       *)
(* Relative Risk values are counted in tenths (12 is 1.2).  Coordinates    *)
(* of the form n - 0.5 are counted in halves (2n - 1).                     *)
(***************************************************************************)
EXTENDS Integers, Sequences, FiniteSets, TLC

\* ------------------------------------------------------------------ bounds
MaxRows == 3
MaxEdits == 2
MaxNameLen == 5
MaxLabelLen == 6
MaxWidth == 4

\* ------------------------------------------------------- program constants
HorizontalWrapWidth == 20
VerticalWrapWidth == 12

\* ------------------------------------------------------------ cell values
None == <<>>
Some(v) == <<v>>
NotNull(cell) == cell # None

\* ---------------------------------------------------------------- strings
SP == " "
NL == "\n"
HASH == "#"
HH == <<HASH, HASH>>
IsSpace(c) == c \in {SP, NL}

\* str.lstrip(): drop the leading whitespace.
RECURSIVE LStrip(_)
LStrip(s) ==
  IF s # <<>> /\ IsSpace(Head(s)) THEN LStrip(Tail(s)) ELSE s

\* str.rstrip(): drop the trailing whitespace.
RECURSIVE RStrip(_)
RStrip(s) ==
  IF s # <<>> /\ IsSpace(s[Len(s)]) THEN RStrip(SubSeq(s, 1, Len(s) - 1)) ELSE s

\* str.strip()
Strip(s) == RStrip(LStrip(s))

\* str.startswith(p)
StartsWith(s, p) == Len(s) >= Len(p) /\ SubSeq(s, 1, Len(p)) = p

\* str.replace(old, new): every non-overlapping occurrence, left to right.
RECURSIVE Replace(_, _, _)
Replace(s, old, new) ==
  IF Len(s) < Len(old) THEN s
  ELSE IF StartsWith(s, old)
       THEN new \o Replace(SubSeq(s, Len(old) + 1, Len(s)), old, new)
       ELSE <<Head(s)>> \o Replace(Tail(s), old, new)

\* str.split(): the maximal runs of non-whitespace characters, in order.
RECURSIVE SplitFrom(_, _)
SplitFrom(s, cur) ==
  IF s = <<>> THEN (IF cur = <<>> THEN <<>> ELSE <<cur>>)
  ELSE IF IsSpace(Head(s))
       THEN (IF cur = <<>> THEN <<>> ELSE <<cur>>) \o SplitFrom(Tail(s), <<>>)
       ELSE SplitFrom(Tail(s), Append(cur, Head(s)))

Split(s) == SplitFrom(s, <<>>)

\* ------------------------------------------------------------ wrap_labels
\* The inner "for word in words" loop: st is [new_label, line].
WrapWord(st, word, width) ==
  IF Len(st.line) + Len(word) + 1 <= width
  THEN [st EXCEPT !.line = st.line \o word \o <<SP>>]
  ELSE [new_label |-> st.new_label \o RStrip(st.line) \o <<NL>>,
        line |-> word \o <<SP>>]

RECURSIVE WrapWords(_, _, _)
WrapWords(st, words, width) ==
  IF words = <<>> THEN st
  ELSE WrapWords(WrapWord(st, Head(words), width), Tail(words), width)

\* One label of wrap_labels.
WrapLabel(label, width) ==
  IF Len(label) > width
  THEN LET st == WrapWords([new_label |-> <<>>, line |-> <<>>], Split(label), width)
       IN  st.new_label \o RStrip(st.line)
  ELSE label

wrap_labels(labels, width) == [k \in 1..Len(labels) |-> WrapLabel(labels[k], width)]

\* --------------------------------------------------------------- the state
VARIABLES
  table,               \* st.data_editor(key="rr_table"): rows [name, rr], cells optional
  orientation,         \* sidebar radio "Orientation"
  label_pos,           \* sidebar selectbox "Label Position"
  show_group_shading,  \* sidebar checkbox "Shade Groups"
  show_reference_line, \* sidebar checkbox "Reference Line (RR=1)"
  trigger,             \* what started the current script run
  edits,               \* number of widget edits so far
  pc,                  \* position of the script run
  data,                \* the normalised table the run works on
  pos,                 \* next row of the parse loop (1-based into data)
  plot_labels, plot_values, group_boundaries, group_labels, label_locs,
  num_bars, indices, group_indices, spans,
  bars, tick_labels, value_labels,
  headings, ref_line,
  shown,               \* what the page shows for the chart
  failed,              \* an uncaught exception ended the run
  labels_in, width_in, labels_out   \* a direct call wrap_labels(labels, width)

vars == <<table, orientation, label_pos, show_group_shading, show_reference_line,
          trigger, edits, pc, data, pos,
          plot_labels, plot_values, group_boundaries, group_labels, label_locs,
          num_bars, indices, group_indices, spans, bars, tick_labels, value_labels,
          headings, ref_line, shown, failed, labels_in, width_in, labels_out>>

widgets == <<orientation, label_pos, show_group_shading, show_reference_line>>
parsed == <<plot_labels, plot_values, group_boundaries, group_labels, label_locs>>
layout == <<num_bars, indices, group_indices, spans>>
drawn == <<bars, tick_labels, value_labels>>
overlays == <<headings, ref_line>>
wrapcall == <<labels_in, width_in, labels_out>>

\* ------------------------------------------------------------ default_data
default_data ==
  << [name |-> Some(<<"#", "#", "S", "t", "a", "t", "i", "n", "s">>), rr |-> None],
     [name |-> Some(<<"A", "t", "o", "r", "v", "a", "s", "t", "a", "t", "i", "n">>), rr |-> Some(12)],
     [name |-> Some(<<"R", "o", "s", "u", "v", "a", "s", "t", "a", "t", "i", "n">>), rr |-> Some(15)],
     [name |-> Some(<<"#", "#", "N", "o", "n", "-", "s", "t", "a", "t", "i", "n", "s">>), rr |-> None],
     [name |-> Some(<<"N", "o", " ", "S", "t", "a", "t", "i", "n">>), rr |-> Some(10)] >>

\* ------------------------------------------------- lines 46-47: normalise
\* dropna(subset=["Cohort Name"]) keeps the index labels of the surviving rows;
\* astype(str).str.strip() trims each surviving name.
DropNaStrip(t) ==
  LET f[k \in 0..Len(t)] ==
        IF k = 0 THEN <<>>
        ELSE IF NotNull(t[k].name)
             THEN Append(f[k - 1], [idx |-> k - 1, name |-> Strip(t[k].name[1]), rr |-> t[k].rr])
             ELSE f[k - 1]
  IN  f[Len(t)]

\* float(row["Relative Risk"]) of a present float64 cell: the same number.
Float(cell) == cell[1]

\* Variants of the loop body with one slip each.
\* "if" in place of "elif": a header row that carries a value also adds a bar.
ParseStep_HeaderAddsBar(acc, row) ==
  LET a == IF StartsWith(row.name, HH)
           THEN [acc EXCEPT !.group_boundaries = Append(@, Len(acc.plot_labels)),
                            !.group_labels = Append(@, Strip(Replace(row.name, HH, <<>>))),
                            !.label_locs = Append(@, row.idx)]
           ELSE acc
  IN  IF NotNull(row.rr)
      THEN [a EXCEPT !.plot_labels = Append(@, row.name),
                     !.plot_values = Append(@, Float(row.rr))]
      ELSE a

\* The boundary taken from the row's table index i instead of len(plot_labels).
ParseStep_BoundaryIsRowIndex(acc, row) ==
  IF StartsWith(row.name, HH)
  THEN [acc EXCEPT !.group_boundaries = Append(@, row.idx),
                   !.group_labels = Append(@, Strip(Replace(row.name, HH, <<>>))),
                   !.label_locs = Append(@, row.idx)]
  ELSE IF NotNull(row.rr)
       THEN [acc EXCEPT !.plot_labels = Append(@, row.name),
                        !.plot_values = Append(@, Float(row.rr))]
       ELSE acc

\* No notnull test: a missing value is plotted as 0.
ParseStep_ZeroFill(acc, row) ==
  IF StartsWith(row.name, HH)
  THEN [acc EXCEPT !.group_boundaries = Append(@, Len(acc.plot_labels)),
                   !.group_labels = Append(@, Strip(Replace(row.name, HH, <<>>))),
                   !.label_locs = Append(@, row.idx)]
  ELSE [acc EXCEPT !.plot_labels = Append(@, row.name),
                   !.plot_values = Append(@, IF NotNull(row.rr) THEN Float(row.rr) ELSE 0)]

\* ---------------------------------------------- lines 89-98: loop body
ParseStep(acc, row) ==
  IF StartsWith(row.name, HH)
  THEN [acc EXCEPT !.group_boundaries = Append(@, Len(acc.plot_labels)),
                   !.group_labels = Append(@, Strip(Replace(row.name, HH, <<>>))),
                   !.label_locs = Append(@, row.idx)]
  ELSE IF NotNull(row.rr)
       THEN [acc EXCEPT !.plot_labels = Append(@, row.name),
                        !.plot_values = Append(@, Float(row.rr))]
       ELSE acc

\* Variant: positions counted from 1.
Indices_FromOne(n) == [k \in 1..n |-> k]

\* np.arange(num_bars)
Indices(n) == [k \in 1..n |-> k - 1]

\* lines 123-130: every second interval of group_indices is shaded.
Shading(gi, on) ==
  LET f[k \in 0..(Len(gi) - 1)] ==
        IF k = 0 THEN <<>>
        ELSE IF on /\ (k - 1) % 2 = 1
             THEN Append(f[k - 1], [from |-> 2 * gi[k] - 1, to |-> 2 * gi[k + 1] - 1])
             ELSE f[k - 1]
  IN  f[Len(gi) - 1]

SeqMax(s) == CHOOSE m \in {s[k] : k \in 1..Len(s)} : \A j \in 1..Len(s) : m >= s[j]

\* lines 147-160 / 180-193: where each bar's value text goes.
ValueLabels(values, lp) ==
  [k \in 1..Len(values) |->
     IF lp = "Inside" /\ 100 * values[k] > 15 * SeqMax(values) THEN "Inside" ELSE "Outside"]

\* lines 201-220: the separators and heading texts that are drawn.
Headings(gb, gl, n) ==
  LET f[k \in 0..Len(gb)] ==
        IF k = 0 THEN <<>>
        ELSE IF 0 < gb[k] /\ gb[k] <= n
             THEN Append(f[k - 1], [idx |-> k - 1, at |-> 2 * gb[k] - 1, text |-> gl[k]])
             ELSE f[k - 1]
  IN  f[Len(gb)]

\* ------------------------------------------------------------------- Init
Blank ==
  /\ trigger = "first" /\ edits = 0 /\ pc = "start"
  /\ data = <<>> /\ pos = 1
  /\ plot_labels = <<>> /\ plot_values = <<>> /\ group_boundaries = <<>>
  /\ group_labels = <<>> /\ label_locs = <<>>
  /\ num_bars = 0 /\ indices = <<>> /\ group_indices = <<>> /\ spans = <<>>
  /\ bars = <<>> /\ tick_labels = <<>> /\ value_labels = <<>>
  /\ headings = <<>> /\ ref_line = FALSE
  /\ shown = "none" /\ failed = FALSE

NoWrapCall == labels_in = <<>> /\ width_in = 0 /\ labels_out = <<>>

DefaultWidgets ==
  /\ orientation = "Horizontal" /\ label_pos = "Outside"
  /\ show_group_shading = TRUE /\ show_reference_line = TRUE

Init == table = default_data /\ DefaultWidgets /\ Blank /\ NoWrapCall

\* Variant of the top of the script: the lists are not emptied.
ScriptTop_KeepLists ==
  /\ pc = "start"
  /\ data' = DropNaStrip(table)
  /\ pos' = 1
  /\ failed' = FALSE
  /\ pc' = "parse"
  /\ UNCHANGED <<table, widgets, trigger, edits, parsed, layout, drawn, overlays, shown,
                 wrapcall>>

\* ------------------------------------------------------ the script run
\* Lines 40-47 and 83-87: take the table, normalise it, start from empty lists.
ScriptTop ==
  /\ pc = "start"
  /\ data' = DropNaStrip(table)
  /\ plot_labels' = <<>> /\ plot_values' = <<>> /\ group_boundaries' = <<>>
  /\ group_labels' = <<>> /\ label_locs' = <<>>
  /\ pos' = 1
  /\ failed' = FALSE
  /\ pc' = "parse"
  /\ UNCHANGED <<table, widgets, trigger, edits, layout, drawn, overlays, shown, wrapcall>>

\* Lines 89-98: one iteration of "for i, row in data.iterrows()".
ParseRow ==
  /\ pc = "parse" /\ pos <= Len(data)
  /\ LET r == ParseStep([plot_labels |-> plot_labels, plot_values |-> plot_values,
                         group_boundaries |-> group_boundaries,
                         group_labels |-> group_labels, label_locs |-> label_locs],
                        data[pos])
     IN  /\ plot_labels' = r.plot_labels /\ plot_values' = r.plot_values
         /\ group_boundaries' = r.group_boundaries /\ group_labels' = r.group_labels
         /\ label_locs' = r.label_locs
  /\ pos' = pos + 1
  /\ UNCHANGED <<table, widgets, trigger, edits, pc, data, layout, drawn, overlays,
                 shown, failed, wrapcall>>

\* Lines 100-130: num_bars, indices, group_indices and the shaded spans.
Layout ==
  /\ pc = "parse" /\ pos > Len(data)
  /\ num_bars' = Len(plot_labels)
  /\ indices' = Indices(Len(plot_labels))
  /\ group_indices' = <<0>> \o group_boundaries \o <<Len(plot_labels)>>
  /\ spans' = Shading(<<0>> \o group_boundaries \o <<Len(plot_labels)>>, show_group_shading)
  /\ pc' = "bars"
  /\ UNCHANGED <<table, widgets, trigger, edits, data, pos, parsed, drawn, overlays,
                 shown, failed, wrapcall>>

\* Lines 132-193: the bars, the wrapped tick labels and the value texts.
\* max(plot_values) raises ValueError on an empty list, when it is evaluated.
DrawBars ==
  /\ pc = "bars"
  /\ bars' = [k \in 1..Len(indices) |-> [at |-> indices[k], value |-> plot_values[k]]]
  /\ tick_labels' = wrap_labels(plot_labels,
                      IF orientation = "Horizontal" THEN HorizontalWrapWidth
                                                    ELSE VerticalWrapWidth)
  /\ failed' = (\E k \in 1..Len(indices) : label_pos = "Inside" /\ plot_values = <<>>)
  /\ value_labels' = ValueLabels(plot_values, label_pos)
  /\ pc' = "headings"
  /\ UNCHANGED <<table, widgets, trigger, edits, data, pos, parsed, layout, overlays,
                 shown, wrapcall>>

\* Lines 200-227: group separators with their heading texts, and the RR=1 line.
DrawHeadings ==
  /\ pc = "headings"
  /\ headings' = Headings(group_boundaries, group_labels, num_bars)
  /\ ref_line' = show_reference_line
  /\ pc' = "show"
  /\ UNCHANGED <<table, widgets, trigger, edits, data, pos, parsed, layout, drawn,
                 shown, failed, wrapcall>>

\* Line 245: st.pyplot(fig).
Show ==
  /\ pc = "show"
  /\ shown' = "chart"
  /\ pc' = "done"
  /\ UNCHANGED <<table, widgets, trigger, edits, data, pos, parsed, layout, drawn,
                 overlays, failed, wrapcall>>

\* ----------------------------------------------------- widget interactions
\* Every interaction with a widget reruns the script from the top.  The run in
\* progress is short; interactions are taken between runs.
EditNames == {None, Some(<<HASH, HASH, "G">>), Some(<<SP>>), Some(<<"A">>)}
EditValues == {None, Some(20)}

Interact ==
  /\ pc = "done" /\ edits < MaxEdits
  /\ edits' = edits + 1
  /\ trigger' = "edit"
  /\ pc' = "start"
  /\ UNCHANGED <<data, pos, parsed, layout, drawn, overlays, shown, failed, wrapcall>>

SetName ==
  /\ \E r \in 1..Len(table), n \in EditNames :
       /\ table[r].name # n
       /\ table' = [table EXCEPT ![r].name = n]
  /\ Interact
  /\ UNCHANGED widgets

SetRR ==
  /\ \E r \in 1..Len(table), v \in EditValues :
       /\ table[r].rr # v
       /\ table' = [table EXCEPT ![r].rr = v]
  /\ Interact
  /\ UNCHANGED widgets

\* num_rows="dynamic": a new row starts with empty cells.
AddRow ==
  /\ table' = Append(table, [name |-> None, rr |-> None])
  /\ Interact
  /\ UNCHANGED widgets

DeleteRow ==
  /\ \E r \in 1..Len(table) :
       table' = SubSeq(table, 1, r - 1) \o SubSeq(table, r + 1, Len(table))
  /\ Interact
  /\ UNCHANGED widgets

SetOrientation ==
  /\ orientation' = (IF orientation = "Horizontal" THEN "Vertical" ELSE "Horizontal")
  /\ Interact
  /\ UNCHANGED <<table, label_pos, show_group_shading, show_reference_line>>

SetLabelPos ==
  /\ label_pos' = (IF label_pos = "Outside" THEN "Inside" ELSE "Outside")
  /\ Interact
  /\ UNCHANGED <<table, orientation, show_group_shading, show_reference_line>>

ToggleShading ==
  /\ show_group_shading' = ~show_group_shading
  /\ Interact
  /\ UNCHANGED <<table, orientation, label_pos, show_reference_line>>

ToggleReferenceLine ==
  /\ show_reference_line' = ~show_reference_line
  /\ Interact
  /\ UNCHANGED <<table, orientation, label_pos, show_group_shading>>

\* An interaction that changes none of the modelled widgets (font, colours,
\* the download button): the script runs again on the same table.
Rerun ==
  /\ pc = "done"
  /\ trigger' = "rerun"
  /\ pc' = "start"
  /\ UNCHANGED <<table, widgets, edits, data, pos, parsed, layout, drawn, overlays,
                 shown, failed, wrapcall>>

Next ==
  \/ ScriptTop \/ ParseRow \/ Layout \/ DrawBars \/ DrawHeadings \/ Show
  \/ SetName \/ SetRR \/ AddRow \/ DeleteRow
  \/ SetOrientation \/ SetLabelPos \/ ToggleShading \/ ToggleReferenceLine
  \/ Rerun

Spec == Init /\ [][Next]_vars

\* ------------------------------------- one render pass of an arbitrary table
TableNames ==
  {None, Some(<<SP, HASH, HASH, SP, "H", SP>>), Some(<<SP, "A">>), Some(<<SP>>)}
TableValues == {None, Some(10), Some(12)}
TableRows == [name : TableNames, rr : TableValues]
Tables == UNION {[1..n -> TableRows] : n \in 0..MaxRows}

InitTable ==
  /\ table \in Tables
  /\ orientation = "Horizontal" /\ label_pos \in {"Outside", "Inside"}
  /\ show_group_shading = TRUE /\ show_reference_line = TRUE
  /\ Blank /\ NoWrapCall

NextRender == ScriptTop \/ ParseRow \/ Layout \/ DrawBars \/ DrawHeadings \/ Show

SpecTable == InitTable /\ [][NextRender]_vars

\* ------------------------------ one render pass of a one-row table, any name
NameChars == {HASH, SP, "a"}
Strings(chars, n) == UNION {[1..k -> chars] : k \in 0..n}

InitName ==
  /\ \E s \in Strings(NameChars, MaxNameLen), v \in {None, Some(10)} :
       table = <<[name |-> Some(s), rr |-> v]>>
  /\ DefaultWidgets /\ Blank /\ NoWrapCall

SpecName == InitName /\ [][NextRender]_vars

\* ---------------------------------------------- a call of wrap_labels alone
LabelChars == {SP, "a"}

InitWrap ==
  /\ table = <<>> /\ DefaultWidgets
  /\ trigger = "first" /\ edits = 0 /\ pc = "call"
  /\ data = <<>> /\ pos = 1
  /\ plot_labels = <<>> /\ plot_values = <<>> /\ group_boundaries = <<>>
  /\ group_labels = <<>> /\ label_locs = <<>>
  /\ num_bars = 0 /\ indices = <<>> /\ group_indices = <<>> /\ spans = <<>>
  /\ bars = <<>> /\ tick_labels = <<>> /\ value_labels = <<>>
  /\ headings = <<>> /\ ref_line = FALSE
  /\ shown = "none" /\ failed = FALSE
  /\ \E s \in Strings(LabelChars, MaxLabelLen), t \in Strings(LabelChars, 2) :
       labels_in = <<s, t>>
  /\ width_in \in 1..MaxWidth
  /\ labels_out = <<>>

CallWrap ==
  /\ pc = "call"
  /\ labels_out' = wrap_labels(labels_in, width_in)
  /\ pc' = "returned"
  /\ UNCHANGED <<table, widgets, trigger, edits, data, pos, parsed, layout, drawn,
                 overlays, shown, failed, labels_in, width_in>>

NextWrap == CallWrap

SpecWrap == InitWrap /\ [][NextWrap]_vars

\* =============================================================== properties
\* What the table says, read off the rows directly (not through the loop).
AfterParse == pc \in {"bars", "headings", "show", "done"}
AfterDraw == pc \in {"headings", "show", "done"}

Trimmed(row) == Strip(row.name[1])
BeginsWithMarker(n) == Len(n) >= 2 /\ n[1] = HASH /\ n[2] = HASH
IsHeaderRow(row) == NotNull(row.name) /\ BeginsWithMarker(Trimmed(row))
IsDataRow(row) == NotNull(row.name) /\ ~BeginsWithMarker(Trimmed(row))
IsContributing(row) == IsDataRow(row) /\ row.rr # None

HeaderRows(t) == {k \in 1..Len(t) : IsHeaderRow(t[k])}
ContributingRows(t) == {k \in 1..Len(t) : IsContributing(t[k])}
Contributing(t) == SelectSeq(t, IsContributing)
SetMin(S) == CHOOSE m \in S : \A x \in S : m <= x
\* The table row of the j-th header, in input order.
HeaderAt(t, j) == CHOOSE k \in HeaderRows(t) : Cardinality({h \in HeaderRows(t) : h <= k}) = j
\* The 1-based bar number of contributing row k.
BarNo(t, k) == Cardinality({c \in ContributingRows(t) : c <= k})

\* C1: after the parse loop there is one group marker (one entry of group_labels
\* and one of group_boundaries) per header row, and the header rows add no bar:
\* the bars fit in the named rows that are not headers.
C1_MarkerPerHeader ==
  AfterParse =>
    /\ Len(group_labels) = Cardinality(HeaderRows(table))
    /\ Len(group_boundaries) = Cardinality(HeaderRows(table))
    /\ Len(plot_labels) <= Cardinality({k \in 1..Len(table) : IsDataRow(table[k])})

C1_Witness ==
  /\ pc = "done"
  /\ \E k \in 1..Len(table) : IsHeaderRow(table[k]) /\ table[k].rr # None
  /\ \E k \in 1..Len(table) : IsContributing(table[k])
  /\ Len(group_labels) >= 2

\* C2: the boundary of each header's marker is the position of the first bar
\* emitted after that header, or num_bars when no bar follows; the boundaries
\* are non-decreasing and lie in 0..num_bars.
C2_BoundaryIsNextBar ==
  AfterParse =>
    /\ Len(group_boundaries) = Cardinality(HeaderRows(table))
    /\ \A j \in 1..Len(group_boundaries) :
         LET h == HeaderAt(table, j)
             after == {m \in ContributingRows(table) : m > h}
         IN  /\ IF after = {}
                THEN group_boundaries[j] = num_bars
                ELSE group_boundaries[j] = indices[BarNo(table, SetMin(after))]
             /\ group_boundaries[j] \in 0..num_bars
    /\ \A j \in 1..(Len(group_boundaries) - 1) : group_boundaries[j] <= group_boundaries[j + 1]

C2_Witness ==
  /\ pc = "done"
  /\ \E j \in 1..Len(group_boundaries) :
       0 < group_boundaries[j] /\ group_boundaries[j] < num_bars

\* C3: the bars are exactly the contributing data rows in input order, the k-th
\* bar at position k - 1 with the label and the value of the k-th such row.
C3_BarsAreContributingRows ==
  AfterParse =>
    LET c == Contributing(table)
    IN  /\ num_bars = Len(c) /\ Len(plot_labels) = Len(c)
        /\ Len(plot_values) = Len(c) /\ Len(indices) = Len(c)
        /\ \A k \in 1..Len(c) :
             /\ plot_labels[k] = Trimmed(c[k])
             /\ <<plot_values[k]>> = c[k].rr
             /\ indices[k] = k - 1
        /\ AfterDraw =>
             /\ Len(bars) = Len(c)
             /\ \A k \in 1..Len(c) : bars[k] = [at |-> k - 1, value |-> c[k].rr[1]]

C3_Witness ==
  /\ pc = "done"
  /\ Len(bars) = 2 /\ bars[1].at = 0 /\ bars[2].at = 1
  /\ bars[1].value # bars[2].value
  /\ group_labels = <<>>
  /\ Len(table) = 2

\* C4 (as claimed): the display label of a header's marker is the row's trimmed
\* label without its first two characters "##", trimmed again, nothing else
\* changed.
C4_Claim ==
  AfterParse =>
    \A j \in 1..Len(group_labels) :
      LET n == Trimmed(table[HeaderAt(table, j)])
      IN  group_labels[j] = Strip(SubSeq(n, 3, Len(n)))

\* C5 (as claimed): every header row gets its separator line and heading text
\* drawn, wherever it stands in the table.
C5_Claim ==
  pc = "done" =>
    /\ Len(headings) = Cardinality(HeaderRows(table))
    /\ \A j \in 1..Len(group_labels) : \E h \in 1..Len(headings) : headings[h].idx = j - 1

\* C6: a data row with a null Relative Risk adds nothing and shifts nothing:
\* at every point of the loop the bars are the data rows processed so far with
\* the null-valued ones taken out, one bar per remaining row, each carrying that
\* row's own value.
IsNullData(row) == ~BeginsWithMarker(row.name) /\ row.rr = None
IsKeptData(row) == ~BeginsWithMarker(row.name) /\ ~IsNullData(row)

C6_NullValueAddsNoBar ==
  (pc = "parse" \/ AfterParse) =>
    LET kept == SelectSeq(SubSeq(data, 1, pos - 1), IsKeptData)
    IN  /\ Len(plot_labels) = Len(kept) /\ Len(plot_values) = Len(kept)
        /\ \A k \in 1..Len(kept) :
             plot_labels[k] = kept[k].name /\ kept[k].rr = <<plot_values[k]>>

C6_Witness ==
  /\ pc = "done"
  /\ \E p \in 1..Len(data), q \in 1..Len(data) :
       p < q /\ IsNullData(data[p]) /\ IsKeptData(data[q])
  /\ Len(plot_labels) = 1

\* C7 (as claimed): a data row gives a bar only if its label is non-empty and
\* its value is present; every other data row gives nothing, and the run does
\* not fail.
HasLabelAndValue(row) == IsContributing(row) /\ Trimmed(row) # <<>>

C7_Claim ==
  AfterParse =>
    /\ Len(plot_labels) = Len(SelectSeq(table, HasLabelAndValue))
    /\ \A k \in 1..Len(plot_labels) : plot_labels[k] # <<>>
    /\ ~failed

\* C8 (as claimed): with nothing to plot the page shows a placeholder message
\* instead of a chart, and the run does not fail.
C8_Claim ==
  (pc = "done" /\ plot_labels = <<>>) => (shown = "placeholder" /\ ~failed)

\* C9: the lists of a render are those of parsing the current table from empty
\* lists, whatever was rendered before.
EmptyLists ==
  [plot_labels |-> <<>>, plot_values |-> <<>>, group_boundaries |-> <<>>,
   group_labels |-> <<>>, label_locs |-> <<>>]

RECURSIVE ParseFrom(_, _)
ParseFrom(acc, rows) ==
  IF rows = <<>> THEN acc ELSE ParseFrom(ParseStep(acc, Head(rows)), Tail(rows))

C9_RenderIsFunctionOfTable ==
  AfterParse =>
    LET r == ParseFrom(EmptyLists, DropNaStrip(table))
    IN  /\ plot_labels = r.plot_labels /\ plot_values = r.plot_values
        /\ group_boundaries = r.group_boundaries /\ group_labels = r.group_labels
        /\ label_locs = r.label_locs

C9_Witness ==
  /\ pc = "done" /\ trigger = "rerun" /\ edits > 0
  /\ plot_labels # <<>> /\ group_labels # <<>>

\* C10 (as claimed): one output per input; a label no longer than width is
\* unchanged; a longer one comes out as its words in order, single spaces inside
\* a line, newlines between lines, and every line with more than one word is at
\* most width characters long.
RECURSIVE SplitKeep(_, _, _)
SplitKeep(s, c, cur) ==
  IF s = <<>> THEN <<cur>>
  ELSE IF Head(s) = c THEN <<cur>> \o SplitKeep(Tail(s), c, <<>>)
       ELSE SplitKeep(Tail(s), c, Append(cur, Head(s)))

RECURSIVE Flatten(_)
Flatten(ss) == IF ss = <<>> THEN <<>> ELSE Head(ss) \o Flatten(Tail(ss))

WellWrapped(label, out, width) ==
  IF Len(label) <= width THEN out = label
  ELSE IF Split(label) = <<>> THEN out = <<>>
  ELSE LET lines == SplitKeep(out, NL, <<>>)
           lw == [k \in 1..Len(lines) |-> SplitKeep(lines[k], SP, <<>>)]
       IN  /\ \A k \in 1..Len(lines) : \A i \in 1..Len(lw[k]) : lw[k][i] # <<>>
           /\ Flatten(lw) = Split(label)
           /\ \A k \in 1..Len(lines) : Len(lw[k]) > 1 => Len(lines[k]) <= width

C10_Claim ==
  pc = "returned" =>
    /\ Len(labels_out) = Len(labels_in)
    /\ \A k \in 1..Len(labels_in) : WellWrapped(labels_in[k], labels_out[k], width_in)

====
